---- MODULE Spec2Model ----
(***************************************************************************)
(* Model of burn's mutex-guarded fusion client (burn-fusion                *)
(* client/mutex.rs) and of the autotuned element-wise fusion unit          *)
(* (burn-jit fusion/elemwise/optimization.rs).                             *)
(*                                                                         *)
(* Spec      : threads calling MutexFusionClient methods on shared servers *)
(* TuneSpec  : fusion units calling ElementWise::execute on a shared tuner *)
(***************************************************************************)
EXTENDS Naturals, Integers, Sequences, FiniteSets, TLC

\* ------------------------------------------------------------------ bounds
\* Client calls made in one run, over all threads.
MaxCalls == 4

Threads == {"t1", "t2"}
\* Two servers with distinct devices; a client is identified by the server its
\* Arc points to (a clone shares the server).
Servers == {"A", "B"}
NoThread == "none"
NoServer == "-"

VARIABLES
    lock,       \* lock[s]: the thread holding server s's spin mutex, or NoThread
    stream,     \* stream[s]: pending operation descriptions of server s
    handles,    \* handles[s]: the handle table, TensorId -> handle state
    counter,    \* counter[s]: next TensorId create_empty_handle hands out
    executed,   \* executed[s]: operations drain_streams has executed, in order
    pc,         \* pc[t]: where thread t is inside its current call
    call,       \* call[t]: the arguments and locals of thread t's current call
    ret,        \* ret[t]: what thread t's last call returned
    calls,      \* number of client calls started so far
    nextOp,     \* number of operation descriptions created so far
    nextHandle, \* number of physical handles created by callers so far
    completed,  \* operation descriptions whose register call has returned
    issued,     \* issued[s]: TensorIds returned by tensor_uninitialized/register_tensor
    bound,      \* [s, id, data] triples returned by register_tensor
    consumed    \* consumed[s]: ids dropped from or moved out of server s

clientVars == <<lock, stream, handles, counter, executed, pc, call, ret, calls,
                nextOp, nextHandle, completed, issued, bound, consumed>>

VARIABLES
    units,     \* units[u]: the ElementWise value (trace, num_operations, device, phase)
    idgen,     \* IdGenerator: ids handed out so far
    cache,     \* TUNER: <<id, key>> -> winning index, for the pairs it has tuned
    upc,       \* upc[u]: where the execute call on unit u is
    ucall,     \* ucall[u]: locals of the execute call on unit u
    ran,       \* ran[u]: what the last execute call on unit u ran
    trials,    \* <<id, key>> -> benchmark trials started, for the pairs tried
    measured,  \* <<id, key>> -> the candidates and latencies of the pair's trial
    written,   \* <<id, key>> -> every index written to the cache, in order
    finished,  \* the pairs <<id, key>> for which an execute call has returned
    executes,  \* number of execute calls started so far
    saved,     \* saved[u]: the ElementWiseState to_state returned for unit u
    created,   \* created[u]: how many times from_state has built a new unit in slot u
    compiles,  \* compiles[u]: compile() calls on the unit now in slot u
    compiled,  \* every compile() so far, in order: the trace and the phase it built
    rebuilds   \* number of to_state calls made so far

tuneVars == <<units, idgen, cache, upc, ucall, ran, trials, measured, written,
              finished, executes, saved, created, compiles, compiled, rebuilds>>

VARIABLES
    clients,   \* the MutexFusionClient values alive: handle -> (server, device, from)
    servers,   \* the FusionServers alive: server -> (device, strong count of its Arc)
    made       \* number of clients constructed so far, by new or by clone

lifeVars == <<clients, servers, made>>

\* What to_state and from_state use and leave alone.
stateVars == <<saved, created, compiles, compiled, rebuilds>>

\* ------------------------------------------------------- FusionServer side
NotInit == [st |-> "NotInit", data |-> 0, ops |-> <<>>]

Live(data, ops) == [st |-> "Live", data |-> data, ops |-> ops]

IsLive(s, id) == id \in DOMAIN handles[s] /\ handles[s][id].st = "Live"

\* Executing one operation writes its tensor: the handle becomes (stays) live
\* and records the operation. An operation on a dropped id changes nothing.
ExecuteOp(hs, op) ==
    IF op.id \in DOMAIN hs
    THEN [hs EXCEPT ![op.id] = Live(@.data, Append(@.ops, op.n))]
    ELSE hs

RECURSIVE ExecuteAll(_, _)
ExecuteAll(hs, ops) ==
    IF ops = <<>> THEN hs
    ELSE ExecuteAll(ExecuteOp(hs, Head(ops)), Tail(ops))

\* FusionServer::register: append the description to the stream.
server_register(q, op) == Append(q, op)

\* FusionServer::drain_streams: the handle table after executing the whole
\* stream in queue order (the stream is then empty).
drain_streams(s) == ExecuteAll(handles[s], stream[s])

\* FusionServer::create_empty_handle: a fresh id bound to no storage yet.
create_empty_handle(hs, id) == (id :> NotInit) @@ hs

\* HandleContainer::register_handle
register_handle(hs, id, data) == [hs EXCEPT ![id] = Live(data, <<>>)]

\* FusionServer::drop_tensor_handle
drop_tensor_handle(hs, id) == [x \in DOMAIN hs \ {id} |-> hs[x]]

Range(q) == {q[i] : i \in DOMAIN q}

\* ------------------------------------------------------------ client side
NoCall == [op |-> "none", self |-> NoServer, other |-> NoServer,
           id |-> 0, data |-> 0, n |-> 0, seen |-> {}]

NoRet == [op |-> "none", kind |-> "none", s |-> NoServer, id |-> 0, data |-> 0,
          ops |-> <<>>]

\* A lock that does not wait for the holder to release the mutex.
MutexLockNoWait(t, s) == lock' = [lock EXCEPT ![s] = t]

\* spin::Mutex::lock: spins until the mutex is free, then takes it.
MutexLock(t, s) == lock[s] = NoThread /\ lock' = [lock EXCEPT ![s] = t]

Unlock(S) == [s \in Servers |-> IF s \in S THEN NoThread ELSE lock[s]]

Return(t, r) ==
    /\ pc' = [pc EXCEPT ![t] = "idle"]
    /\ call' = [call EXCEPT ![t] = NoCall]
    /\ ret' = [ret EXCEPT ![t] = [r EXCEPT !.op = call[t].op]]

Self(t) == call[t].self

\* A thread invokes a client method: the arguments are fixed here, before any
\* lock is taken. Tensor arguments name a tensor present in the client's server.
Call(t) ==
    /\ pc[t] = "idle"
    /\ calls < MaxCalls
    /\ calls' = calls + 1
    /\ ret' = [ret EXCEPT ![t] = NoRet]
    /\ \E s \in Servers :
        \/ /\ \E op \in {"drain", "tensor_uninitialized"} :
                call' = [call EXCEPT ![t] = [NoCall EXCEPT !.op = op, !.self = s]]
           /\ pc' = [pc EXCEPT ![t] = "lock"]
           /\ UNCHANGED <<nextOp, nextHandle>>
        \/ /\ call' = [call EXCEPT ![t] = [NoCall EXCEPT !.op = "register_tensor",
                                              !.self = s, !.data = nextHandle + 1]]
           /\ nextHandle' = nextHandle + 1
           /\ pc' = [pc EXCEPT ![t] = "lock"]
           /\ UNCHANGED nextOp
        \/ /\ \E id \in DOMAIN handles[s] :
                call' = [call EXCEPT ![t] = [NoCall EXCEPT !.op = "register",
                                              !.self = s, !.id = id, !.n = nextOp + 1]]
           /\ nextOp' = nextOp + 1
           /\ pc' = [pc EXCEPT ![t] = "lock"]
           /\ UNCHANGED nextHandle
        \/ /\ \E id \in DOMAIN handles[s] :
                call' = [call EXCEPT ![t] = [NoCall EXCEPT !.op = "read_tensor",
                    !.self = s, !.id = id,
                    !.seen = {o.n : o \in {c \in completed : c.s = s /\ c.id = id}}]]
           /\ pc' = [pc EXCEPT ![t] = "lock"]
           /\ UNCHANGED <<nextOp, nextHandle>>
        \/ /\ \E id \in DOMAIN handles[s] :
                call' = [call EXCEPT ![t] = [NoCall EXCEPT !.op = "register_orphan",
                                              !.self = s, !.id = id]]
           /\ pc' = [pc EXCEPT ![t] = "lock"]
           /\ UNCHANGED <<nextOp, nextHandle>>
        \/ /\ \E id \in DOMAIN handles[s], o \in Servers :
                call' = [call EXCEPT ![t] = [NoCall EXCEPT !.op = "change_client",
                                              !.self = s, !.other = o, !.id = id]]
           /\ pc' = [pc EXCEPT ![t] = "lock_other"]
           /\ UNCHANGED <<nextOp, nextHandle>>
    /\ UNCHANGED <<lock, stream, handles, counter, executed, completed, issued,
                   bound, consumed>>
    /\ UNCHANGED <<tuneVars, lifeVars>>

\* self.server.lock() of the single-server methods.
Lock(t) ==
    /\ pc[t] = "lock"
    /\ MutexLock(t, Self(t))
    /\ pc' = [pc EXCEPT ![t] = call[t].op]
    /\ UNCHANGED <<stream, handles, counter, executed, call, ret, calls, nextOp,
                   nextHandle, completed, issued, bound, consumed>>
    /\ UNCHANGED <<tuneVars, lifeVars>>

register(t) ==
    /\ pc[t] = "register"
    /\ stream' = [stream EXCEPT ![Self(t)] =
                    server_register(@, [n |-> call[t].n, id |-> call[t].id])]
    /\ completed' = completed \cup {[s |-> Self(t), id |-> call[t].id, n |-> call[t].n,
                                      by |-> t]}
    /\ lock' = Unlock({Self(t)})
    /\ Return(t, [NoRet EXCEPT !.kind = "unit"])
    /\ UNCHANGED <<handles, counter, executed, calls, nextOp, nextHandle, issued,
                   bound, consumed>>
    /\ UNCHANGED <<tuneVars, lifeVars>>

\* drain that calls create_empty_handle on the server instead of drain_streams.
drain_wrong_method(t) ==
    /\ pc[t] = "drain"
    /\ handles' = [handles EXCEPT ![Self(t)] = create_empty_handle(@, counter[Self(t)])]
    /\ counter' = [counter EXCEPT ![Self(t)] = @ + 1]
    /\ lock' = Unlock({Self(t)})
    /\ Return(t, [NoRet EXCEPT !.kind = "unit"])
    /\ UNCHANGED <<stream, executed, calls, nextOp, nextHandle, completed, issued,
                   bound, consumed>>
    /\ UNCHANGED <<tuneVars, lifeVars>>

\* drain that takes and releases the lock without draining the stream.
drain_forgets(t) ==
    /\ pc[t] = "drain"
    /\ lock' = Unlock({Self(t)})
    /\ Return(t, [NoRet EXCEPT !.kind = "unit"])
    /\ UNCHANGED <<handles, stream, counter, executed, calls, nextOp, nextHandle,
                   completed, issued, bound, consumed>>
    /\ UNCHANGED <<tuneVars, lifeVars>>

\* MutexFusionClient::drain: self.server.lock().drain_streams()
drain(t) ==
    /\ pc[t] = "drain"
    /\ handles' = [handles EXCEPT ![Self(t)] = drain_streams(Self(t))]
    /\ executed' = [executed EXCEPT ![Self(t)] = @ \o stream[Self(t)]]
    /\ stream' = [stream EXCEPT ![Self(t)] = <<>>]
    /\ lock' = Unlock({Self(t)})
    /\ Return(t, [NoRet EXCEPT !.kind = "unit"])
    /\ UNCHANGED <<counter, calls, nextOp, nextHandle, completed, issued, bound,
                   consumed>>
    /\ UNCHANGED <<tuneVars, lifeVars>>

tensor_uninitialized(t) ==
    /\ pc[t] = "tensor_uninitialized"
    /\ LET s == Self(t)
           id == counter[s]
       IN /\ handles' = [handles EXCEPT ![s] = create_empty_handle(@, id)]
          /\ counter' = [counter EXCEPT ![s] = @ + 1]
          /\ issued' = [issued EXCEPT ![s] = Append(@, id)]
          /\ lock' = Unlock({s})
          /\ Return(t, [NoRet EXCEPT !.kind = "tensor", !.s = s, !.id = id])
    /\ UNCHANGED <<stream, executed, calls, nextOp, nextHandle, completed, bound,
                   consumed>>
    /\ UNCHANGED <<tuneVars, lifeVars>>

\* register_tensor that releases the lock between creating the id and binding
\* the handle.
register_tensor_releases(t) ==
    /\ pc[t] = "register_tensor"
    /\ LET s == Self(t)
           id == counter[s]
       IN /\ handles' = [handles EXCEPT ![s] = create_empty_handle(@, id)]
          /\ counter' = [counter EXCEPT ![s] = @ + 1]
          /\ call' = [call EXCEPT ![t].id = id]
          /\ lock' = Unlock({s})
    /\ pc' = [pc EXCEPT ![t] = "register_handle"]
    /\ UNCHANGED <<stream, executed, ret, calls, nextOp, nextHandle,
                   completed, issued, bound, consumed>>
    /\ UNCHANGED <<tuneVars, lifeVars>>

\* register_tensor, first half: let id = server.create_empty_handle();
register_tensor(t) ==
    /\ pc[t] = "register_tensor"
    /\ LET s == Self(t)
           id == counter[s]
       IN /\ handles' = [handles EXCEPT ![s] = create_empty_handle(@, id)]
          /\ counter' = [counter EXCEPT ![s] = @ + 1]
          /\ call' = [call EXCEPT ![t].id = id]
    /\ pc' = [pc EXCEPT ![t] = "register_handle"]
    /\ UNCHANGED <<lock, stream, executed, ret, calls, nextOp, nextHandle,
                   completed, issued, bound, consumed>>
    /\ UNCHANGED <<tuneVars, lifeVars>>

\* register_tensor that returns the fresh id without binding the handle to it.
register_tensor_unbound(t) ==
    /\ pc[t] = "register_handle"
    /\ LET s == Self(t)
           id == call[t].id
       IN /\ issued' = [issued EXCEPT ![s] = Append(@, id)]
          /\ bound' = bound \cup {[s |-> s, id |-> id, data |-> call[t].data]}
          /\ lock' = Unlock({s})
          /\ Return(t, [NoRet EXCEPT !.kind = "tensor", !.s = s, !.id = id,
                                     !.data = call[t].data])
    /\ UNCHANGED <<handles, stream, counter, executed, calls, nextOp, nextHandle,
                   completed, consumed>>
    /\ UNCHANGED <<tuneVars, lifeVars>>

\* register_tensor, second half: server.handles.register_handle(id, handle);
\* drop(server); FusionTensor::new(id, shape, self.clone())
register_tensor_bind(t) ==
    /\ pc[t] = "register_handle"
    /\ LET s == Self(t)
           id == call[t].id
       IN /\ handles' = [handles EXCEPT ![s] = register_handle(@, id, call[t].data)]
          /\ issued' = [issued EXCEPT ![s] = Append(@, id)]
          /\ bound' = bound \cup {[s |-> s, id |-> id, data |-> call[t].data]}
          /\ lock' = Unlock({s})
          /\ Return(t, [NoRet EXCEPT !.kind = "tensor", !.s = s, !.id = id,
                                     !.data = call[t].data])
    /\ UNCHANGED <<stream, counter, executed, calls, nextOp, nextHandle,
                   completed, consumed>>
    /\ UNCHANGED <<tuneVars, lifeVars>>

\* FusionServer::read_float/int/bool: drain the stream, then read the handle.
\* A tensor with no live handle is a fatal lookup miss.
server_read(s, id) ==
    LET hs == drain_streams(s)
    IN IF id \in DOMAIN hs /\ hs[id].st = "Live"
       THEN [NoRet EXCEPT !.kind = "data", !.s = s, !.id = id,
                          !.data = hs[id].data, !.ops = hs[id].ops]
       ELSE [NoRet EXCEPT !.kind = "panic"]

\* A read that looks the handle up without draining the stream first.
read_tensor_no_drain(t) ==
    /\ pc[t] = "read_tensor"
    /\ lock' = Unlock({Self(t)})
    /\ Return(t, IF IsLive(Self(t), call[t].id)
                 THEN [NoRet EXCEPT !.kind = "data", !.s = Self(t), !.id = call[t].id,
                                    !.data = handles[Self(t)][call[t].id].data,
                                    !.ops = handles[Self(t)][call[t].id].ops]
                 ELSE [NoRet EXCEPT !.kind = "panic"])
    /\ UNCHANGED <<handles, executed, stream, counter, calls, nextOp, nextHandle,
                   completed, issued, bound, consumed>>
    /\ UNCHANGED <<tuneVars, lifeVars>>

read_tensor(t) ==
    /\ pc[t] = "read_tensor"
    /\ handles' = [handles EXCEPT ![Self(t)] = drain_streams(Self(t))]
    /\ executed' = [executed EXCEPT ![Self(t)] = @ \o stream[Self(t)]]
    /\ stream' = [stream EXCEPT ![Self(t)] = <<>>]
    /\ lock' = Unlock({Self(t)})
    /\ Return(t, server_read(Self(t), call[t].id))
    /\ UNCHANGED <<counter, calls, nextOp, nextHandle, completed, issued, bound,
                   consumed>>
    /\ UNCHANGED <<tuneVars, lifeVars>>

register_orphan(t) ==
    /\ pc[t] = "register_orphan"
    /\ handles' = [handles EXCEPT ![Self(t)] = drop_tensor_handle(@, call[t].id)]
    /\ consumed' = [consumed EXCEPT ![Self(t)] = @ \cup {call[t].id}]
    /\ lock' = Unlock({Self(t)})
    /\ Return(t, [NoRet EXCEPT !.kind = "unit"])
    /\ UNCHANGED <<stream, counter, executed, calls, nextOp, nextHandle,
                   completed, issued, bound>>
    /\ UNCHANGED <<tuneVars, lifeVars>>

\* change_client_{float,int,bool}: let mut server_other = client.server.lock();
change_client_lock_other(t) ==
    /\ pc[t] = "lock_other"
    /\ MutexLock(t, call[t].other)
    /\ pc' = [pc EXCEPT ![t] = "lock_current"]
    /\ UNCHANGED <<stream, handles, counter, executed, call, ret, calls, nextOp,
                   nextHandle, completed, issued, bound, consumed>>
    /\ UNCHANGED <<tuneVars, lifeVars>>

\* let mut server_current = self.server.lock();
change_client_lock_current(t) ==
    /\ pc[t] = "lock_current"
    /\ MutexLock(t, Self(t))
    /\ pc' = [pc EXCEPT ![t] = "drain_current"]
    /\ UNCHANGED <<stream, handles, counter, executed, call, ret, calls, nextOp,
                   nextHandle, completed, issued, bound, consumed>>
    /\ UNCHANGED <<tuneVars, lifeVars>>

\* change_client that goes on to the move without draining the source stream.
change_client_no_drain(t) ==
    /\ pc[t] = "drain_current"
    /\ pc' = [pc EXCEPT ![t] = "change_server"]
    /\ UNCHANGED <<handles, executed, stream, lock, counter, call, ret, calls,
                   nextOp, nextHandle, completed, issued, bound, consumed>>
    /\ UNCHANGED <<tuneVars, lifeVars>>

\* server_current.drain_streams();
change_client_drain(t) ==
    /\ pc[t] = "drain_current"
    /\ handles' = [handles EXCEPT ![Self(t)] = drain_streams(Self(t))]
    /\ executed' = [executed EXCEPT ![Self(t)] = @ \o stream[Self(t)]]
    /\ stream' = [stream EXCEPT ![Self(t)] = <<>>]
    /\ pc' = [pc EXCEPT ![t] = "change_server"]
    /\ UNCHANGED <<lock, counter, call, ret, calls, nextOp, nextHandle, completed,
                   issued, bound, consumed>>
    /\ UNCHANGED <<tuneVars, lifeVars>>

\* FusionServer::change_server_float/int/bool(tensor, device, server_device):
\* the handle leaves the table of `from` and is registered in `to` under a
\* fresh id of `to`. The result is the pair of tables and the new id.
change_server(from, to, id) ==
    LET newid == counter[to]
        h == handles[from][id]
    IN [handles |-> [handles EXCEPT
                        ![from] = drop_tensor_handle(@, id),
                        ![to] = (newid :> Live(h.data, h.ops)) @@ @],
        id |-> newid]

\* change_client that builds the returned tensor on the source client
\* (self.clone()) instead of the destination client.
change_client_returns_self(t) ==
    /\ pc[t] = "change_server"
    /\ LET s == Self(t)
           o == call[t].other
           id == call[t].id
       IN IF IsLive(s, id)
          THEN LET r == change_server(s, o, id)
               IN /\ handles' = r.handles
                  /\ counter' = [counter EXCEPT ![o] = @ + 1]
                  /\ issued' = [issued EXCEPT ![o] = Append(@, r.id)]
                  /\ consumed' = [consumed EXCEPT ![s] = @ \cup {id}]
                  /\ Return(t, [NoRet EXCEPT !.kind = "moved", !.s = s, !.id = r.id,
                                             !.data = handles[s][id].data,
                                             !.ops = handles[s][id].ops])
          ELSE /\ UNCHANGED <<handles, counter, issued, consumed>>
               /\ Return(t, [NoRet EXCEPT !.kind = "panic"])
    /\ lock' = Unlock({Self(t), call[t].other})
    /\ UNCHANGED <<stream, executed, calls, nextOp, nextHandle, completed, bound>>
    /\ UNCHANGED <<tuneVars, lifeVars>>

\* change_client that drops server_current and leaves server_other locked.
change_client_keeps_other(t) ==
    /\ pc[t] = "change_server"
    /\ LET s == Self(t)
           o == call[t].other
           id == call[t].id
       IN IF IsLive(s, id)
          THEN LET r == change_server(s, o, id)
               IN /\ handles' = r.handles
                  /\ counter' = [counter EXCEPT ![o] = @ + 1]
                  /\ issued' = [issued EXCEPT ![o] = Append(@, r.id)]
                  /\ consumed' = [consumed EXCEPT ![s] = @ \cup {id}]
                  /\ Return(t, [NoRet EXCEPT !.kind = "moved", !.s = o, !.id = r.id,
                                             !.data = handles[s][id].data,
                                             !.ops = handles[s][id].ops])
          ELSE /\ UNCHANGED <<handles, counter, issued, consumed>>
               /\ Return(t, [NoRet EXCEPT !.kind = "panic"])
    /\ lock' = Unlock({Self(t)})
    /\ UNCHANGED <<stream, executed, calls, nextOp, nextHandle, completed, bound>>
    /\ UNCHANGED <<tuneVars, lifeVars>>

\* let id = server_current.change_server(&tensor, &device, &mut server_other);
\* drop(server_other); drop(server_current); FusionTensor::new(id, .., client)
change_client(t) ==
    /\ pc[t] = "change_server"
    /\ LET s == Self(t)
           o == call[t].other
           id == call[t].id
       IN IF IsLive(s, id)
          THEN LET r == change_server(s, o, id)
               IN /\ handles' = r.handles
                  /\ counter' = [counter EXCEPT ![o] = @ + 1]
                  /\ issued' = [issued EXCEPT ![o] = Append(@, r.id)]
                  /\ consumed' = [consumed EXCEPT ![s] = @ \cup {id}]
                  /\ Return(t, [NoRet EXCEPT !.kind = "moved", !.s = o, !.id = r.id,
                                             !.data = handles[s][id].data,
                                             !.ops = handles[s][id].ops])
          ELSE /\ UNCHANGED <<handles, counter, issued, consumed>>
               /\ Return(t, [NoRet EXCEPT !.kind = "panic"])
    /\ lock' = Unlock({Self(t), call[t].other})
    /\ UNCHANGED <<stream, executed, calls, nextOp, nextHandle, completed, bound>>
    /\ UNCHANGED <<tuneVars, lifeVars>>

InitClient ==
    /\ lock = [s \in Servers |-> NoThread]
    /\ stream = [s \in Servers |-> <<>>]
    /\ handles = [s \in Servers |-> <<>>]
    /\ counter = [s \in Servers |-> 0]
    /\ executed = [s \in Servers |-> <<>>]
    /\ pc = [t \in Threads |-> "idle"]
    /\ call = [t \in Threads |-> NoCall]
    /\ ret = [t \in Threads |-> NoRet]
    /\ calls = 0
    /\ nextOp = 0
    /\ nextHandle = 0
    /\ completed = {}
    /\ issued = [s \in Servers |-> <<>>]
    /\ bound = {}
    /\ consumed = [s \in Servers |-> {}]



\* =========================================================================
\* ElementWise fusion unit and the autotune cache (optimization.rs)
\* =========================================================================
\* ElementWise::execute and to_state calls made in one run, over all units.
MaxExecutes == 3
Units == {"u1", "u2", "u3"}
Devices == {"d0", "d1"}
\* Tensors a trace refers to, and the shapes a context binds them to.
TraceTensors == {0, 1}
BoundShapes == {<<2>>, <<4>>}
Shapes == BoundShapes \cup {<<>>}
NumOperations == {1, 2}
\* Wall-clock latencies a benchmark can measure: two values give every winner
\* and every tie among three candidates.
Latencies == {1, 2}
\* Option::None of TUNER.autotune_result
NoIndex == -1
CubeDimDefault == "default"
CubeDim16x16x1 == "16x16x1"


Keys == [num_operations : NumOperations, shape : Shapes]

\* ElementWiseKernelFactory::new(id, info, cube_dim)
ElementWiseKernelFactory(id, cube_dim) == [id |-> id, cube_dim |-> cube_dim]

\* compile that does not ask IdGenerator and numbers its factories 1 and 2.
compile_fixed_ids(unit, gen) ==
    [trace |-> unit.trace,
     device |-> unit.device,
     phase |-> [kernel_factory_1 |-> ElementWiseKernelFactory(1, CubeDimDefault),
                kernel_factory_2 |-> ElementWiseKernelFactory(2, CubeDim16x16x1)],
     num_operations |-> unit.num_operations]

\* ElementWise<R, CompilationPhase>::compile: two factories over the same
\* trace, ids from IdGenerator::generate(), the second with CubeDim(16, 16, 1).
compile(unit, gen) ==
    [trace |-> unit.trace,
     device |-> unit.device,
     phase |-> [kernel_factory_1 |-> ElementWiseKernelFactory(gen + 1, CubeDimDefault),
                kernel_factory_2 |-> ElementWiseKernelFactory(gen + 2, CubeDim16x16x1)],
     num_operations |-> unit.num_operations]

\* struct CompilationPhase: the phase without kernel factories.
CompilationPhase == [name |-> "CompilationPhase"]

\* #[derive(new)] ElementWise::new(trace, num_operations, device, phase)
ElementWise(trace, num_operations, device, phase) ==
    [trace |-> trace, num_operations |-> num_operations, device |-> device,
     phase |-> phase]

\* ElementWise::autotune_shape: the first output when possible, otherwise the
\* first input, otherwise the empty shape.
autotune_shape(unit, context) ==
    IF unit.trace.outputs # <<>> THEN context[Head(unit.trace.outputs)]
    ELSE IF unit.trace.inputs # <<>> THEN context[Head(unit.trace.inputs)]
    ELSE <<>>

\* FusionElemWiseAutotuneKey::new(num_operations, autotune_shape(context))
AutotuneKey(unit, context) ==
    [num_operations |-> unit.num_operations, shape |-> autotune_shape(unit, context)]

\* JitTuneId::new::<R>(&self.device)
JitTuneId(device) == device

\* Map lookup with a default, and insertion.
Get(m, k, default) == IF k \in DOMAIN m THEN m[k] ELSE default

Put(m, k, v) == (k :> v) @@ m

\* TUNER.autotune_result(&id, &key)
autotune_result(id, key) ==
    IF <<id, key>> \in DOMAIN cache THEN cache[<<id, key>>] ELSE NoIndex

NoContext == [x \in TraceTensors |-> <<2>>]

NoUCall == [id |-> "d0", key |-> [num_operations |-> 1, shape |-> <<>>],
            index |-> NoIndex, after |-> FALSE, context |-> NoContext]

NoRan == [path |-> "none", id |-> "d0", key |-> [num_operations |-> 1, shape |-> <<>>],
          index |-> NoIndex, cube_dim |-> "none", factory |-> 0, hit |-> FALSE]

\* execute that does not consult the cache and always takes the autotune path.
execute_ignores_cache(u) ==
    /\ upc[u] = "idle"
    /\ executes + rebuilds < MaxExecutes
    /\ executes' = executes + 1
    /\ \E context \in [TraceTensors -> BoundShapes] :
        LET id == JitTuneId(units[u].device)
            key == AutotuneKey(units[u], context)
        IN /\ ucall' = [ucall EXCEPT ![u] = [id |-> id, key |-> key, index |-> NoIndex,
                                             after |-> <<id, key>> \in finished,
                                             context |-> context]]
           /\ upc' = [upc EXCEPT ![u] = "run_autotune"]
    /\ ran' = [ran EXCEPT ![u] = NoRan]
    /\ UNCHANGED <<units, idgen, cache, trials, measured, written, finished>>
    /\ UNCHANGED stateVars
    /\ UNCHANGED <<clientVars, lifeVars>>

\* ElementWise::execute: compute the key, look the cache up, and branch.
execute(u) ==
    /\ upc[u] = "idle"
    /\ executes + rebuilds < MaxExecutes
    /\ executes' = executes + 1
    /\ \E context \in [TraceTensors -> BoundShapes] :
        LET id == JitTuneId(units[u].device)
            key == AutotuneKey(units[u], context)
            index == autotune_result(id, key)
        IN /\ ucall' = [ucall EXCEPT ![u] = [id |-> id, key |-> key, index |-> index,
                                             after |-> <<id, key>> \in finished,
                                             context |-> context]]
           /\ upc' = [upc EXCEPT ![u] = IF index # NoIndex THEN "run_kernel"
                                        ELSE "run_autotune"]
    /\ ran' = [ran EXCEPT ![u] = NoRan]
    /\ UNCHANGED <<units, idgen, cache, trials, measured, written, finished>>
    /\ UNCHANGED stateVars
    /\ UNCHANGED <<clientVars, lifeVars>>

\* The match of run_kernel: the factory for a winning index, or a panic.
kernel_set(unit, fastest_set_index) ==
    IF fastest_set_index = 0 THEN unit.phase.kernel_factory_1
    ELSE IF fastest_set_index = 1 THEN unit.phase.kernel_factory_2
    ELSE ElementWiseKernelFactory(0, "panic")

\* ElementWise::run_kernel
run_kernel(u) ==
    /\ upc[u] = "run_kernel"
    /\ LET set == kernel_set(units[u], ucall[u].index)
       IN IF set.cube_dim = "panic"
          THEN /\ ran' = [ran EXCEPT ![u] = [NoRan EXCEPT !.path = "panic",
                              !.id = ucall[u].id, !.key = ucall[u].key,
                              !.index = ucall[u].index, !.hit = TRUE]]
               /\ UNCHANGED finished
          ELSE /\ ran' = [ran EXCEPT ![u] = [path |-> "run_kernel",
                              id |-> ucall[u].id, key |-> ucall[u].key,
                              index |-> ucall[u].index, cube_dim |-> set.cube_dim,
                              factory |-> set.id, hit |-> TRUE]]
               /\ finished' = finished \cup {<<ucall[u].id, ucall[u].key>>}
    /\ upc' = [upc EXCEPT ![u] = "idle"]
    /\ ucall' = [ucall EXCEPT ![u] = NoUCall]
    /\ UNCHANGED <<units, idgen, cache, trials, measured, written, executes>>
    /\ UNCHANGED stateVars
    /\ UNCHANGED <<clientVars, lifeVars>>

\* The benchmark's scan for the minimum: candidate j replaces the best so far
\* only when it is strictly faster, so the earliest candidate wins ties.
RECURSIVE FastestFrom(_, _, _)
FastestFrom(lat, best, j) ==
    IF j > Len(lat) THEN best
    ELSE FastestFrom(lat, IF lat[j] < lat[best] THEN j ELSE best, j + 1)

Fastest(lat) == FastestFrom(lat, 1, 2)

\* ElementWiseAutotuneOperationSet::new(key, kernel_1, kernel_2, kernel_default)
ElementWiseAutotuneOperationSet(key, kernel_1, kernel_2, kernel_default) ==
    [key |-> key, kernels |-> <<kernel_1, kernel_2, kernel_default>>]

\* LocalTuner::execute(id, client, set), under the tuner's own lock: a cached
\* decision is used as it is; otherwise every candidate is benchmarked, the
\* winning index (0-based) is stored, and the winner runs once more.
tuner_execute(u, id, set) ==
    LET pair == <<id, set.key>>
    IN IF pair \in DOMAIN cache
       THEN /\ ran' = [ran EXCEPT ![u] = [path |-> "run_autotune", id |-> id,
                           key |-> set.key, index |-> cache[pair],
                           cube_dim |-> set.kernels[cache[pair] + 1].cube_dim,
                           factory |-> set.kernels[cache[pair] + 1].id,
                           hit |-> FALSE]]
            /\ UNCHANGED <<cache, trials, measured, written>>
       ELSE \E lat \in [DOMAIN set.kernels -> Latencies] :
               LET index == Fastest(lat) - 1
               IN /\ trials' = Put(trials, pair, Get(trials, pair, 0) + 1)
                  /\ measured' = Put(measured, pair,
                                     [lat |-> lat,
                                      cube_dims |-> [i \in DOMAIN set.kernels |->
                                                        set.kernels[i].cube_dim]])
                  /\ cache' = Put(cache, pair, index)
                  /\ written' = Put(written, pair, Append(Get(written, pair, <<>>), index))
                  /\ ran' = [ran EXCEPT ![u] = [path |-> "run_autotune", id |-> id,
                                 key |-> set.key, index |-> index,
                                 cube_dim |-> set.kernels[index + 1].cube_dim,
                                 factory |-> set.kernels[index + 1].id,
                                 hit |-> FALSE]]

\* run_autotune that hands kernel_2 to the operation set in the first place.
run_autotune_swapped(u) ==
    /\ upc[u] = "run_autotune"
    /\ LET kernel_1 == units[u].phase.kernel_factory_1
           kernel_2 == units[u].phase.kernel_factory_2
           kernel_default == units[u].phase.kernel_factory_1
       IN tuner_execute(u, ucall[u].id,
              ElementWiseAutotuneOperationSet(ucall[u].key, kernel_2, kernel_1,
                                              kernel_default))
    /\ finished' = finished \cup {<<ucall[u].id, ucall[u].key>>}
    /\ upc' = [upc EXCEPT ![u] = "idle"]
    /\ ucall' = [ucall EXCEPT ![u] = NoUCall]
    /\ UNCHANGED <<units, idgen, executes>>
    /\ UNCHANGED stateVars
    /\ UNCHANGED <<clientVars, lifeVars>>

\* ElementWise::run_autotune: kernel_1 and kernel_default from
\* kernel_factory_1, kernel_2 from kernel_factory_2, handed to the tuner.
run_autotune(u) ==
    /\ upc[u] = "run_autotune"
    /\ LET kernel_1 == units[u].phase.kernel_factory_1
           kernel_2 == units[u].phase.kernel_factory_2
           kernel_default == units[u].phase.kernel_factory_1
       IN tuner_execute(u, ucall[u].id,
              ElementWiseAutotuneOperationSet(ucall[u].key, kernel_1, kernel_2,
                                              kernel_default))
    /\ finished' = finished \cup {<<ucall[u].id, ucall[u].key>>}
    /\ upc' = [upc EXCEPT ![u] = "idle"]
    /\ ucall' = [ucall EXCEPT ![u] = NoUCall]
    /\ UNCHANGED <<units, idgen, executes>>
    /\ UNCHANGED stateVars
    /\ UNCHANGED <<clientVars, lifeVars>>

\* struct ElementWiseState { trace, num_operations }
ElementWiseState(trace, num_operations) ==
    [trace |-> trace, num_operations |-> num_operations]

\* to_state that does not carry the operation count.
to_state_drops_count(u) ==
    /\ upc[u] = "idle"
    /\ executes + rebuilds < MaxExecutes
    /\ rebuilds' = rebuilds + 1
    /\ saved' = Put(saved, u, ElementWiseState(units[u].trace, 0))
    /\ UNCHANGED <<units, idgen, cache, upc, ucall, ran, trials, measured, written,
                   finished, executes, created, compiles, compiled>>
    /\ UNCHANGED <<clientVars, lifeVars>>

\* ElementWise::to_state: the state is built from the unit, which is only read.
to_state(u) ==
    /\ upc[u] = "idle"
    /\ executes + rebuilds < MaxExecutes
    /\ rebuilds' = rebuilds + 1
    /\ saved' = Put(saved, u, ElementWiseState(units[u].trace, units[u].num_operations))
    /\ UNCHANGED <<units, idgen, cache, upc, ucall, ran, trials, measured, written,
                   finished, executes, created, compiles, compiled>>
    /\ UNCHANGED <<clientVars, lifeVars>>

\* ElementWise::from_state up to the struct literal: the state is taken by
\* value, and a new unit in the Compilation phase is built over its trace and
\* count and the given device.
from_state(u) ==
    /\ upc[u] = "idle"
    /\ u \in DOMAIN saved
    /\ saved' = [v \in DOMAIN saved \ {u} |-> saved[v]]
    /\ \E device \in Devices :
         units' = [units EXCEPT ![u] = ElementWise(saved[u].trace,
                                          saved[u].num_operations, device,
                                          CompilationPhase)]
    /\ created' = [created EXCEPT ![u] = @ + 1]
    /\ compiles' = [compiles EXCEPT ![u] = 0]
    /\ upc' = [upc EXCEPT ![u] = "compile"]
    /\ ran' = [ran EXCEPT ![u] = NoRan]
    /\ UNCHANGED <<idgen, cache, ucall, trials, measured, written, finished,
                   executes, compiled, rebuilds>>
    /\ UNCHANGED <<clientVars, lifeVars>>

\* from_state that returns the unit as the struct literal built it.
from_state_uncompiled(u) ==
    /\ upc[u] = "compile"
    /\ upc' = [upc EXCEPT ![u] = "idle"]
    /\ UNCHANGED <<units, idgen, cache, ucall, ran, trials, measured, written,
                   finished, executes, saved, created, compiles, compiled, rebuilds>>
    /\ UNCHANGED <<clientVars, lifeVars>>

\* The .compile() that ends from_state: the unit enters the Execution phase
\* and is what from_state returns.
from_state_compile(u) ==
    /\ upc[u] = "compile"
    /\ units' = [units EXCEPT ![u] = compile(units[u], idgen)]
    /\ idgen' = idgen + 2
    /\ compiles' = [compiles EXCEPT ![u] = @ + 1]
    /\ compiled' = Append(compiled, [trace |-> units'[u].trace,
                                     phase |-> units'[u].phase])
    /\ upc' = [upc EXCEPT ![u] = "idle"]
    /\ UNCHANGED <<cache, ucall, ran, trials, measured, written, finished,
                   executes, saved, created, rebuilds>>
    /\ UNCHANGED <<clientVars, lifeVars>>

\* The units after construction, each compiled once: u1 has an input and an
\* output, u2 an input only, u3 neither; u1 and u2 share device d0.
InitTune ==
    /\ units = [u \in Units |->
            IF u = "u1" THEN compile(ElementWise([inputs |-> <<0>>, outputs |-> <<1>>],
                                                 2, "d0", CompilationPhase), 0)
            ELSE IF u = "u2" THEN compile(ElementWise([inputs |-> <<0>>, outputs |-> <<>>],
                                                 2, "d0", CompilationPhase), 2)
            ELSE compile(ElementWise([inputs |-> <<>>, outputs |-> <<>>],
                                     1, "d1", CompilationPhase), 4)]
    /\ idgen = 6
    /\ cache = <<>>
    /\ upc = [u \in Units |-> "idle"]
    /\ ucall = [u \in Units |-> NoUCall]
    /\ ran = [u \in Units |-> NoRan]
    /\ trials = <<>>
    /\ measured = <<>>
    /\ written = <<>>
    /\ finished = {}
    /\ executes = 0
    /\ saved = <<>>
    /\ created = [u \in Units |-> 0]
    /\ compiles = [u \in Units |-> 1]
    /\ compiled = <<[trace |-> units["u1"].trace, phase |-> units["u1"].phase],
                    [trace |-> units["u2"].trace, phase |-> units["u2"].phase],
                    [trace |-> units["u3"].trace, phase |-> units["u3"].phase]>>
    /\ rebuilds = 0

TuneNext ==
    \E u \in Units :
        \/ execute(u)
        \/ run_kernel(u)
        \/ run_autotune(u)
        \/ to_state(u)
        \/ from_state(u)
        \/ from_state_compile(u)

\* =========================================================================
\* Client construction, clone and drop (mutex.rs)
\* =========================================================================
\* Clients constructed in one run, by new or by clone.
MaxClients == 4

\* Map without one key.
Remove(m, k) == [x \in DOMAIN m \ {k} |-> m[x]]

\* MutexFusionClient::new(device): Arc::new(Mutex::new(FusionServer::new(device)))
new(device) ==
    /\ made < MaxClients
    /\ made' = made + 1
    /\ LET server == made + 1
       IN /\ servers' = Put(servers, server, [device |-> device, strong |-> 1])
          /\ clients' = Put(clients, made + 1,
                            [server |-> server, device |-> device, from |-> 0])
    /\ UNCHANGED <<clientVars, tuneVars>>

\* A clone that builds a server of its own for the device.
clone_new_server(c) ==
    /\ c \in DOMAIN clients
    /\ made < MaxClients
    /\ made' = made + 1
    /\ servers' = Put(servers, made + 1, [device |-> clients[c].device, strong |-> 1])
    /\ clients' = Put(clients, made + 1,
                      [server |-> made + 1, device |-> clients[c].device, from |-> c])
    /\ UNCHANGED <<clientVars, tuneVars>>

\* Clone for MutexFusionClient: server: self.server.clone(), the same Arc with
\* one more strong reference; device: self.device.clone()
clone(c) ==
    /\ c \in DOMAIN clients
    /\ made < MaxClients
    /\ made' = made + 1
    /\ servers' = [servers EXCEPT ![clients[c].server].strong = @ + 1]
    /\ clients' = Put(clients, made + 1,
                      [server |-> clients[c].server, device |-> clients[c].device,
                       from |-> c])
    /\ UNCHANGED <<clientVars, tuneVars>>

\* A client goes out of scope: its Arc gives up one strong reference, and the
\* server is freed with the last one.
drop(c) ==
    /\ c \in DOMAIN clients
    /\ clients' = Remove(clients, c)
    /\ servers' = IF servers[clients[c].server].strong = 1
                  THEN Remove(servers, clients[c].server)
                  ELSE [servers EXCEPT ![clients[c].server].strong = @ - 1]
    /\ UNCHANGED made
    /\ UNCHANGED <<clientVars, tuneVars>>

InitLife ==
    /\ clients = <<>>
    /\ servers = <<>>
    /\ made = 0

LifeNext ==
    \/ \E device \in Devices : new(device)
    \/ \E c \in 1..MaxClients : clone(c) \/ drop(c)

Init == InitClient /\ InitTune /\ InitLife

vars == <<clientVars, tuneVars, lifeVars>>

\* Threads calling the client; the fusion units are at rest.
Next ==
    \E t \in Threads :
        \/ Call(t)
        \/ Lock(t)
        \/ register(t)
        \/ drain(t)
        \/ tensor_uninitialized(t)
        \/ register_tensor(t)
        \/ register_tensor_bind(t)
        \/ read_tensor(t)
        \/ register_orphan(t)
        \/ change_client_lock_other(t)
        \/ change_client_lock_current(t)
        \/ change_client_drain(t)
        \/ change_client(t)


Spec == Init /\ [][Next]_vars

\* Fusion units executing; the clients are at rest.
TuneSpec == Init /\ [][TuneNext]_vars

\* Clients being constructed, cloned and dropped; no call is made.
LifeSpec == Init /\ [][LifeNext]_vars

\* ------------------------------------------------------------- properties
Waits(t, s) ==
    \/ pc[t] = "lock" /\ Self(t) = s
    \/ pc[t] = "lock_other" /\ call[t].other = s
    \/ pc[t] = "lock_current" /\ Self(t) = s

\* C1: two change_client calls that move tensors in opposite directions
\* between two distinct servers never block each other: there is no state in
\* which each holds the server lock the other one is waiting for.
C1_NoCircularWait ==
    ~ \E t1, t2 \in Threads :
        /\ t1 # t2
        /\ pc[t1] = "lock_current" /\ pc[t2] = "lock_current"
        /\ Self(t1) # call[t1].other
        /\ Self(t1) = call[t2].other /\ Self(t2) = call[t1].other
        /\ lock[Self(t1)] = t2 /\ lock[Self(t2)] = t1

\* Thread t is about to execute a step that reads or writes the stream or the
\* handle table of server s.
Touches(t, s) ==
    \/ /\ pc[t] \in {"register", "drain", "tensor_uninitialized", "register_tensor",
                     "register_handle", "read_tensor", "register_orphan",
                     "drain_current"}
       /\ Self(t) = s
    \/ pc[t] = "change_server" /\ s \in {Self(t), call[t].other}

\* C2: at most one thread at a time is inside a mutating step of a server, and
\* the thread that is holds that server's mutex.
C2_MutualExclusion ==
    \A s \in Servers :
        /\ Cardinality({t \in Threads : Touches(t, s)}) <= 1
        /\ \A t \in Threads : Touches(t, s) => lock[s] = t

\* One thread is inside a server while another one is spinning on its mutex.
C2_Witness ==
    \E s \in Servers, t1, t2 \in Threads :
        t1 # t2 /\ Touches(t1, s) /\ Waits(t2, s)

\* C3: when change_client moves the handle, the source stream holds no pending
\* operation; this holds in every state between the drain and the move, so no
\* register of another thread slips in between.
C3_DrainedAtMove ==
    \A t \in Threads : pc[t] = "change_server" => stream[Self(t)] = <<>>

\* A change_client has drained at least one operation and is about to move the
\* handle while another thread's register on the source server is waiting.
C3_Witness ==
    \E t1, t2 \in Threads :
        /\ pc[t1] = "change_server" /\ executed[Self(t1)] # <<>>
        /\ pc[t2] = "lock" /\ call[t2].op = "register" /\ Self(t2) = Self(t1)

\* Physical handles (by their data) that are live in server s.
LiveData(s) == {handles[s][id].data : id \in {x \in DOMAIN handles[s] : IsLive(s, x)}}

\* C4: when change_client returns, the returned tensor belongs to the
\* destination client, its id resolves there to a live handle holding the
\* tensor's data, and the source no longer resolves the original id; a
\* registered handle is never live in both servers.
C4_OwnershipTransfer ==
    /\ [][\A t \in Threads :
            (pc[t] = "change_server" /\ pc'[t] = "idle" /\ ret'[t].kind = "moved") =>
                /\ ret'[t].s = call[t].other
                /\ ret'[t].id \in DOMAIN handles'[call[t].other]
                /\ handles'[call[t].other][ret'[t].id] = handles[Self(t)][call[t].id]
                /\ handles'[call[t].other][ret'[t].id].st = "Live"
                /\ call[t].id \notin DOMAIN handles'[Self(t)]]_vars
    /\ [](\A s1, s2 \in Servers :
            s1 # s2 => (LiveData(s1) \cap LiveData(s2)) \subseteq {0})

\* A tensor registered on one server is live on the other one after a move.
C4_Witness ==
    \E t \in Threads, b \in bound :
        /\ ret[t].kind = "moved" /\ ret[t].data = b.data /\ b.s # ret[t].s
        /\ IsLive(ret[t].s, ret[t].id)
        /\ handles[ret[t].s][ret[t].id].data = b.data
        /\ b.id \notin DOMAIN handles[b.s]

NoDuplicates(q) == \A i, j \in DOMAIN q : i # j => q[i] # q[j]

BoundOn(s) == {b \in bound : b.s = s}

\* C6: the ids returned on one server are pairwise distinct, every handle given
\* to register_tensor is live under its returned id until it is dropped or
\* moved, and with no drops N register_tensor calls leave exactly N such
\* handles.
C6_NoLostRegistration ==
    \A s \in Servers :
        /\ NoDuplicates(issued[s])
        /\ \A b \in BoundOn(s) :
              b.id \notin consumed[s] =>
                  IsLive(s, b.id) /\ handles[s][b.id].data = b.data
        /\ consumed[s] = {} =>
              Cardinality({id \in DOMAIN handles[s] :
                              IsLive(s, id) /\
                              handles[s][id].data \in {b.data : b \in BoundOn(s)}})
                  = Cardinality(BoundOn(s))

\* Two threads registered a tensor each on the same server, with no drops.
C6_Witness ==
    \E s \in Servers, t1, t2 \in Threads :
        /\ t1 # t2
        /\ ret[t1].kind = "tensor" /\ ret[t1].s = s /\ ret[t1].data # 0
        /\ ret[t2].kind = "tensor" /\ ret[t2].s = s /\ ret[t2].data # 0
        /\ Cardinality(BoundOn(s)) >= 2
        /\ consumed[s] = {}

C8_CachedIndexStable ==
    /\ \A p \in DOMAIN written :
          Len(written[p]) = 1 /\ autotune_result(p[1], p[2]) = written[p][1]
    /\ \A u \in Units :
          ran[u].hit =>
              /\ ran[u].path = "run_kernel"
              /\ ran[u].index = autotune_result(ran[u].id, ran[u].key)

\* C9: on a cache hit the call is fatal exactly when the cached index is not
\* one of 0, 1, 2; each of 0, 1, 2 runs a kernel.
C9_FatalOnlyOutOfRange ==
    \A u \in Units :
        ran[u].hit => (ran[u].path = "panic" <=> ran[u].index \notin {0, 1, 2})

\* C10: the cached index is the candidate with the minimum measured latency,
\* the earliest candidate winning ties, candidate 0 being the default
\* configuration; the call that ran the trial then ran the winner, and a cache
\* hit uses the cached index.
C10_FastestCached ==
    /\ \A p \in DOMAIN cache :
          /\ p \in DOMAIN measured
          /\ LET m == measured[p]
                 i == cache[p] + 1
             IN /\ i \in DOMAIN m.lat
                /\ \A j \in DOMAIN m.lat : m.lat[i] <= m.lat[j]
                /\ \A j \in DOMAIN m.lat : j < i => m.lat[j] > m.lat[i]
                /\ m.cube_dims[1] = CubeDimDefault
    /\ \A u \in Units :
          ran[u].path = "run_autotune" =>
              /\ ran[u].index = autotune_result(ran[u].id, ran[u].key)
              /\ ran[u].cube_dim =
                    measured[<<ran[u].id, ran[u].key>>].cube_dims[ran[u].index + 1]
    /\ \A u \in Units :
          upc[u] = "run_kernel" =>
              ucall[u].index = autotune_result(ucall[u].id, ucall[u].key)

\* A trial ended in a tie between the two configurations, the default one
\* (index 0) was cached, and a later call ran it from the cache.
C10_Witness ==
    \E u \in Units :
        /\ ran[u].hit /\ ran[u].path = "run_kernel" /\ ran[u].index = 0
        /\ ran[u].cube_dim = CubeDimDefault
        /\ measured[<<ran[u].id, ran[u].key>>].lat[1]
              = measured[<<ran[u].id, ran[u].key>>].lat[2]

\* The unit holds kernel factories: it is in the Execution phase.
InExecution(unit) == "kernel_factory_1" \in DOMAIN unit.phase

\* The trace has neither inputs nor outputs.
Degenerate(unit) == unit.trace.inputs = <<>> /\ unit.trace.outputs = <<>>

\* C11: the key of an execute call carries the shape the context binds to the
\* trace's first output, or to its first input when there is no output, or
\* the empty shape when there is neither; and on a unit without inputs and
\* outputs execute never ends in a panic, and what it ran was looked up and
\* is cached under the empty-shape key.
C11_DegenerateKey ==
    \A u \in Units :
        /\ upc[u] \in {"run_kernel", "run_autotune"} =>
              ucall[u].key.shape =
                 IF Len(units[u].trace.outputs) > 0
                 THEN ucall[u].context[units[u].trace.outputs[1]]
                 ELSE IF Len(units[u].trace.inputs) > 0
                      THEN ucall[u].context[units[u].trace.inputs[1]]
                      ELSE <<>>
        /\ Degenerate(units[u]) /\ InExecution(units[u]) =>
              /\ ran[u].path # "panic"
              /\ ran[u].path # "none" =>
                    /\ ran[u].key.shape = <<>>
                    /\ <<ran[u].id, ran[u].key>> \in DOMAIN cache

\* C12 as stated: any two compile() calls on the same trace built the same
\* pair of factories, ids and launch configurations alike.
C12_SameFactories ==
    \A i, j \in DOMAIN compiled :
        compiled[i].trace = compiled[j].trace => compiled[i].phase = compiled[j].phase

FactoryIds(phase) == {phase.kernel_factory_1.id, phase.kernel_factory_2.id}

\* C12: any two compile() calls on the same trace built factories with the
\* same launch configurations, and any two compile() calls at all built
\* factories with different ids.
C12_SameLaunchFreshIds ==
    \A i, j \in DOMAIN compiled :
        /\ compiled[i].trace = compiled[j].trace =>
              /\ compiled[i].phase.kernel_factory_1.cube_dim
                    = compiled[j].phase.kernel_factory_1.cube_dim
              /\ compiled[i].phase.kernel_factory_2.cube_dim
                    = compiled[j].phase.kernel_factory_2.cube_dim
        /\ i # j => FactoryIds(compiled[i].phase) \cap FactoryIds(compiled[j].phase) = {}

\* A unit was rebuilt from its own state: two compiles of one trace.
C12_Witness ==
    \E i, j \in DOMAIN compiled :
        i < j /\ compiled[i].trace = compiled[j].trace

\* C13: a unit that from_state has built but not yet returned is in the
\* Compilation phase with no compile() behind it; every other unit, and so
\* every unit execute, run_kernel or run_autotune runs on, is in the
\* Execution phase with exactly one compile() behind it; and no step takes
\* a unit of the Execution phase back to Compilation.
C13_PhaseOneWay ==
    /\ [](\A u \in Units :
            IF upc[u] = "compile"
            THEN ~InExecution(units[u]) /\ compiles[u] = 0
            ELSE InExecution(units[u]) /\ compiles[u] = 1)
    /\ [][\A u \in Units :
            created'[u] = created[u] /\ InExecution(units[u])
               => InExecution(units'[u])]_vars

\* A unit rebuilt by from_state has been executed.
C13_Witness ==
    \E u \in Units :
        created[u] > 0 /\ ran[u].path \in {"run_kernel", "run_autotune"}

\* C20: to_state returns exactly the unit's trace and operation count and
\* leaves the unit as it was; from_state builds its unit over the trace and
\* count of the state it is given; and compile() keeps trace, device and
\* count while building two factories with different launch configurations.
C20_StateRoundTrip ==
    /\ [](\A u \in DOMAIN saved : DOMAIN saved[u] = {"trace", "num_operations"})
    /\ [][\A u \in Units :
            /\ rebuilds' # rebuilds /\ u \in DOMAIN saved' /\ u \notin DOMAIN saved =>
                  /\ units' = units
                  /\ saved'[u].trace = units[u].trace
                  /\ saved'[u].num_operations = units[u].num_operations
            /\ upc[u] = "idle" /\ upc'[u] = "compile" =>
                  /\ units'[u].trace = saved[u].trace
                  /\ units'[u].num_operations = saved[u].num_operations
            /\ upc[u] = "compile" /\ upc'[u] = "idle" =>
                  /\ units'[u].trace = units[u].trace
                  /\ units'[u].device = units[u].device
                  /\ units'[u].num_operations = units[u].num_operations
                  /\ units'[u].phase.kernel_factory_1.cube_dim
                        # units'[u].phase.kernel_factory_2.cube_dim]_vars

\* A unit rebuilt from its own state on the other device, compiled, with the
\* trace and count it started with.
C20_Witness ==
    /\ created["u1"] = 1 /\ upc["u1"] = "idle"
    /\ units["u1"].device = "d1"
    /\ units["u1"].trace = [inputs |-> <<0>>, outputs |-> <<1>>]
    /\ units["u1"].num_operations = 2

C16_NoLockAfterReturn ==
    \A s \in Servers : lock[s] # NoThread => pc[lock[s]] # "idle"

\* A change_client call has moved a tensor between two servers and returned,
\* no call is in progress, and both mutexes are free.
C16_Witness ==
    /\ \E t \in Threads : ret[t].op = "change_client" /\ ret[t].kind = "moved"
    /\ \A t \in Threads : pc[t] = "idle"
    /\ \A s \in Servers : lock[s] = NoThread

\* The operations of server s in the order they were appended: those already
\* executed, then those still pending.
Queued(s) == executed[s] \o stream[s]

RegisteredBy(n) == {c.by : c \in {d \in completed : d.n = n}}

\* C17: the executed operations followed by the pending ones are exactly the
\* registered operations of the server, each once, and two operations of one
\* thread stand in the order that thread registered them; a drain executes
\* the whole stream as it finds it, in order, and nothing else ever changes
\* what has been executed.
C17_QueueOrder ==
    /\ [](\A s \in Servers :
            /\ NoDuplicates([i \in DOMAIN Queued(s) |-> Queued(s)[i].n])
            /\ {op.n : op \in Range(Queued(s))} = {c.n : c \in {d \in completed : d.s = s}}
            /\ \A i, j \in DOMAIN Queued(s) :
                  /\ RegisteredBy(Queued(s)[i].n) = RegisteredBy(Queued(s)[j].n)
                  /\ Queued(s)[i].n < Queued(s)[j].n
                  => i < j)
    /\ [][\A s \in Servers :
            /\ (\E t \in Threads : pc[t] = "drain" /\ pc'[t] = "idle" /\ Self(t) = s) =>
                  executed'[s] = executed[s] \o stream[s] /\ stream'[s] = <<>>
            /\ \/ executed'[s] = executed[s]
               \/ executed'[s] = executed[s] \o stream[s] /\ stream'[s] = <<>>]_vars

\* A drain has executed two operations that one thread registered.
C17_Witness ==
    \E s \in Servers, t \in Threads :
        /\ Len(executed[s]) = 2
        /\ RegisteredBy(executed[s][1].n) = {t}
        /\ RegisteredBy(executed[s][2].n) = {t}
        /\ executed[s][1].n < executed[s][2].n

\* C18: a change_client call whose destination client shares the source's
\* server is never left waiting for a mutex that the calling thread itself
\* holds, a wait that cannot end.
C18_SameServerReturns ==
    \A t \in Threads :
        ~(pc[t] = "lock_current" /\ call[t].other = Self(t) /\ lock[Self(t)] = t)

\* C19: while register_tensor has created its id and not yet bound the
\* handle, the id is in the table without a handle, the calling thread holds
\* the server's lock, and no other thread is inside an operation on that
\* server.
C19_RegisterTensorAtomic ==
    \A t \in Threads :
        pc[t] = "register_handle" =>
           /\ handles[Self(t)][call[t].id] = NotInit
           /\ lock[Self(t)] = t
           /\ \A t2 \in Threads \ {t} : ~Touches(t2, Self(t))

\* register_tensor is between its two steps while another thread waits to
\* drain, read or drop on the same server.
C19_Witness ==
    \E t, t2 \in Threads :
        /\ t # t2
        /\ pc[t] = "register_handle"
        /\ pc[t2] = "lock" /\ Self(t2) = Self(t)
        /\ call[t2].op \in {"drain", "read_tensor", "register_orphan"}

\* C14 as stated: two clients alive for one device use one server.
C14_OneServerPerDevice ==
    \A c1, c2 \in DOMAIN clients :
        clients[c1].device = clients[c2].device => clients[c1].server = clients[c2].server

\* C14: a clone uses the server and device of the client it was cloned from,
\* and no server is created for it; a client built by new uses a server
\* that did not exist before; and every client's server is alive, is the
\* server of the client's device, and counts exactly the clients using it.
C14_CloneSharesServer ==
    /\ [](\A c \in DOMAIN clients :
            /\ clients[c].server \in DOMAIN servers
            /\ servers[clients[c].server].device = clients[c].device
            /\ servers[clients[c].server].strong =
                  Cardinality({d \in DOMAIN clients : clients[d].server = clients[c].server}))
    /\ [][\A c \in DOMAIN clients' \ DOMAIN clients :
            IF clients'[c].from # 0
            THEN /\ clients'[c].server = clients[clients'[c].from].server
                 /\ clients'[c].device = clients[clients'[c].from].device
                 /\ DOMAIN servers' = DOMAIN servers
            ELSE clients'[c].server \notin DOMAIN servers]_vars

\* A clone outlives the client it was cloned from: the original is dropped,
\* and the clone still uses the server, which is alive.
C14_Witness ==
    \E c \in DOMAIN clients :
        /\ clients[c].from # 0
        /\ clients[c].from \notin DOMAIN clients
        /\ clients[c].server \in DOMAIN servers
        /\ servers[clients[c].server].strong = 1

====
